---- MODULE Spec2Model ----
(***************************************************************************)
(* Model of tinystl's intrusive AVL tree (include/tinystl/avl_tree.h).     *)
(*                                                                         *)
(* A node is an address 1..MaxNodes, Nil is the null pointer.  The fields  *)
(* of every avl_node object (mParent, mLeft, mRight, mHeight), the value   *)
(* embedded in the derived object, and the tree's root pointer and mSize   *)
(* are the state.  Every member function is an operator over a record      *)
(* holding that state ("heap"), translated statement by statement; the     *)
(* actions apply the operators to the state variables.                     *)
(*                                                                         *)
(* mSize is a size_t.  The model holds it as the two's-complement reading  *)
(* of its 64-bit pattern, so the value 2^64-1 (0 - 1 in size_t arithmetic) *)
(* is written -1; +1 and -1 on that reading are exact modulo 2^64.         *)
(***************************************************************************)
EXTENDS Integers, Sequences, FiniteSets, TLC

\* ---- bounds ----------------------------------------------------------
MaxNodes == 5
MaxDrift == 1
DeepHeight == 6
MaxLen == 3

Nil == 0
Nodes == 1..MaxNodes
Keys == 1..MaxNodes

\* linked: the nodes the caller has handed to the tree and not got back.
\* lastOp, lastNode, lastRet, lastWalk, visited: the last call, its argument,
\* what it returned, what its rebalance walk did and the nodes clear's
\* handler was invoked on.
\* view: a string_view call: the view's characters, the arguments and, once
\* the call has returned, its result.
VARIABLES root, mSize, mParent, mLeft, mRight, mHeight, value,
          linked, lastOp, lastNode, lastRet, lastWalk, visited, view

vars == <<root, mSize, mParent, mLeft, mRight, mHeight, value,
          linked, lastOp, lastNode, lastRet, lastWalk, visited, view>>

\* no string_view call is being made
NoView == [data |-> <<>>, c |-> "a", pos |-> 0, ret |-> <<>>]

\* The tree object and every node object, as one record.  Besides the
\* program's fields it carries what a call hands back: .ret the value the
\* last returning member function returned, .fixes the nodes the rebalance
\* walk applied fix_left / fix_right to, .stop the node at which the walk
\* took its break (Nil: it did not), .seq the nodes clear's handler was
\* invoked on.
Heap ==
  [root |-> root, size |-> mSize, parent |-> mParent, left |-> mLeft,
   right |-> mRight, height |-> mHeight, val |-> value,
   ret |-> Nil, fixes |-> <<>>, stop |-> Nil, seq |-> <<>>]

Max(a, b) == IF a > b THEN a ELSE b

\* return v;
return(t, v) == [t EXCEPT !.ret = v]

\* n->mLeft = v;  n->mRight = v;  n->mParent = v;  n->mHeight = h;
set_left(t, n, v) == [t EXCEPT !.left[n] = v]

set_right(t, n, v) == [t EXCEPT !.right[n] = v]

set_parent(t, n, v) == [t EXCEPT !.parent[n] = v]

set_height(t, n, h) == [t EXCEPT !.height[n] = h]

\* if (c != nullptr) c->mParent = p;
reparent(t, c, p) == IF c # Nil THEN set_parent(t, c, p) ELSE t

\* l ? l->height() : 0
child_height(t, n) == IF n = Nil THEN 0 ELSE t.height[n]

\* value_comp()(a, b): std::less over the embedded values
value_comp(t, a, b) == t.val[a] < t.val[b]

\* ---- avl_node ----------------------------------------------------------
update_height(t, self) ==
  set_height(t, self,
    Max(child_height(t, t.left[self]), child_height(t, t.right[self])) + 1)

replace_as_child(t, self, node, parent) ==
  IF parent # Nil
    THEN IF t.left[parent] = self
           THEN set_left(t, parent, node)
           ELSE set_right(t, parent, node)
    ELSE [t EXCEPT !.root = node]

\* node takes over self's four fields (the last four statements of replace)
copy_links(t, self, node) ==
  [t EXCEPT !.left[node] = t.left[self],
            !.right[node] = t.right[self],
            !.parent[node] = t.parent[self],
            !.height[node] = t.height[self]]

\* if (left() != nullptr) left()->mParent = node;  and the same for right()
adopt_left(t, self, node) == reparent(t, t.left[self], node)

adopt_right(t, self, node) == reparent(t, t.right[self], node)

\* replace that leaves the parent link of self's right child as it was
replace_half(t, self, node) ==
  LET t1 == replace_as_child(t, self, node, t.parent[self])
      t2 == adopt_left(t1, self, node)
  IN copy_links(t2, self, node)

replace(t, self, node) ==
  LET t1 == replace_as_child(t, self, node, t.parent[self])
      t2 == adopt_left(t1, self, node)
      t3 == adopt_right(t2, self, node)
  IN copy_links(t3, self, node)

\* rotate_left with its locals r and par; returns r
rotate_left_body(t, self, r, par) ==
  LET t1 == set_right(t, self, t.left[r])
      t2 == adopt_right(t1, self, self)
      t3 == set_left(t2, r, self)
      t4 == set_parent(t3, r, par)
      t5 == replace_as_child(t4, self, r, par)
      t6 == set_parent(t5, self, r)
  IN return(t6, r)

\* rotate_left that leaves the parent link of the subtree it moves as it was
rotate_left_lost(t, self) ==
  LET r == t.right[self]
      par == t.parent[self]
      t1 == set_right(t, self, t.left[r])
      t3 == set_left(t1, r, self)
      t4 == set_parent(t3, r, par)
      t5 == replace_as_child(t4, self, r, par)
      t6 == set_parent(t5, self, r)
  IN return(t6, r)

rotate_left(t, self) == rotate_left_body(t, self, t.right[self], t.parent[self])

\* rotate_right with its locals l and par; returns l
rotate_right_body(t, self, l, par) ==
  LET t1 == set_left(t, self, t.right[l])
      t2 == adopt_right(t1, l, self)
      t3 == set_right(t2, l, self)
      t4 == set_parent(t3, l, par)
      t5 == replace_as_child(t4, self, l, par)
      t6 == set_parent(t5, self, l)
  IN return(t6, l)

\* rotate_right that leaves the parent link of the subtree it moves as it
\* was
rotate_right_lost(t, self) ==
  LET l == t.left[self]
      par == t.parent[self]
      t1 == set_left(t, self, t.right[l])
      t3 == set_right(t1, l, self)
      t4 == set_parent(t3, l, par)
      t5 == replace_as_child(t4, self, l, par)
      t6 == set_parent(t5, self, l)
  IN return(t6, l)

rotate_right(t, self) ==
  rotate_right_body(t, self, t.left[self], t.parent[self])

\* node = <rotation>; node->right()->update_height(); node->update_height();
\* t is the state the rotation left, t.ret the node it returned
heights_right(t) == update_height(update_height(t, t.right[t.ret]), t.ret)

\* node = <rotation>; node->left()->update_height(); node->update_height();
heights_left(t) == update_height(update_height(t, t.left[t.ret]), t.ret)

\* fix_left that leaves the stored height of the node it moved down as it
\* was (node->left()->update_height() forgotten)
fix_left_stale(t, self) ==
  LET r == t.right[self]
      rh0 == child_height(t, t.left[r])
      rh1 == child_height(t, t.right[r])
      t1 == IF rh0 > rh1 THEN heights_right(rotate_right(t, r)) ELSE t
      t2 == rotate_left(t1, self)
  IN update_height(t2, t2.ret)

\* fix_left that never rotates the right child first
fix_left_single(t, self) == heights_left(rotate_left(t, self))

\* returns the node that took self's place (in .ret)
fix_left(t, self) ==
  LET r == t.right[self]
      rh0 == child_height(t, t.left[r])
      rh1 == child_height(t, t.right[r])
      t1 == IF rh0 > rh1 THEN heights_right(rotate_right(t, r)) ELSE t
  IN heights_left(rotate_left(t1, self))

fix_right(t, self) ==
  LET l == t.left[self]
      rh0 == child_height(t, t.left[l])
      rh1 == child_height(t, t.right[l])
      t1 == IF rh0 < rh1 THEN heights_left(rotate_left(t, l)) ELSE t
  IN heights_right(rotate_right(t1, self))

\* the walk's record of a fix-up applied at node
note_fix(t, node) == [t EXCEPT !.fixes = Append(t.fixes, node)]

\* the walk's record of its break at node
note_stop(t, node) == [t EXCEPT !.stop = node]

RECURSIVE rebalance_loop(_, _)

\* node = node->fix_left(tree) (or fix_right), then the loop's increment
\* node = node->parent(); t is the state the fix-up left
rebalance_next(t) == rebalance_loop(t, t.parent[t.ret])

\* one round of a loop body that has no "if (node->height() == height)
\* break": it goes on up to the root
rebalance_at_nobreak(t, node, hl, hr) ==
  IF hl - hr <= -2
    THEN rebalance_next(
           fix_left(note_fix(set_height(t, node, Max(hl, hr) + 1), node),
                    node))
    ELSE IF hl - hr >= 2
      THEN rebalance_next(
             fix_right(note_fix(set_height(t, node, Max(hl, hr) + 1), node),
                       node))
      ELSE rebalance_loop(set_height(t, node, Max(hl, hr) + 1),
                          t.parent[node])

\* one round of the loop body at node, with its locals hl and hr
rebalance_at(t, node, hl, hr) ==
  IF t.height[node] = Max(hl, hr) + 1
    THEN note_stop(t, node)
    ELSE IF hl - hr <= -2
      THEN rebalance_next(
             fix_left(note_fix(set_height(t, node, Max(hl, hr) + 1), node),
                      node))
      ELSE IF hl - hr >= 2
        THEN rebalance_next(
               fix_right(note_fix(set_height(t, node, Max(hl, hr) + 1), node),
                         node))
        ELSE rebalance_loop(set_height(t, node, Max(hl, hr) + 1),
                            t.parent[node])

\* for (node = ...; node != nullptr; node = node->parent())
rebalance_loop(t, node) ==
  IF node = Nil THEN t
  ELSE rebalance_at(t, node, child_height(t, t.left[node]),
                    child_height(t, t.right[node]))

rebalance(t, self) == rebalance_loop(t, self)

\* if (parent()) parent()->rebalance(tree);
rebalance_parent(t, self) ==
  IF t.parent[self] # Nil THEN rebalance(t, t.parent[self]) ELSE t

fix_insert(t, self) ==
  rebalance_parent(
    set_height(set_right(set_left(t, self, Nil), self, Nil), self, 1), self)

\* ---- avl_tree ----------------------------------------------------------
\* bool empty() const noexcept { return mSize; }
empty(t) == t.size # 0

size(t) == t.size

\* mSize += 1;  mSize -= 1;
grow(t) == [t EXCEPT !.size = t.size + 1]

shrink(t) == [t EXCEPT !.size = t.size - 1]

\* The link step every insert variant repeats: current->mLeft = node (or
\* mRight); node->mParent = current; node->fix_insert(*this); mSize += 1.
link_left(t, current, node) ==
  grow(fix_insert(set_parent(set_left(t, current, node), node, current),
                  node))

link_right(t, current, node) ==
  grow(fix_insert(set_parent(set_right(t, current, node), node, current),
                  node))

\* The first insertion: node becomes the root.
link_root(t, node) ==
  [t EXCEPT !.root = node, !.parent[node] = Nil, !.left[node] = Nil,
            !.right[node] = Nil, !.height[node] = 1]

\* insert_unique whose first test is "not greater" instead of "less": a tie
\* goes left and is linked
RECURSIVE insert_unique_loop_nonstrict(_, _, _)
insert_unique_loop_nonstrict(t, node, current) ==
  IF ~value_comp(t, current, node)
    THEN IF t.left[current] # Nil
           THEN insert_unique_loop_nonstrict(t, node, t.left[current])
           ELSE return(link_left(t, current, node), TRUE)
    ELSE IF t.right[current] # Nil
      THEN insert_unique_loop_nonstrict(t, node, t.right[current])
      ELSE return(link_right(t, current, node), TRUE)

RECURSIVE insert_unique_loop(_, _, _)
insert_unique_loop(t, node, current) ==
  IF value_comp(t, node, current)
    THEN IF t.left[current] # Nil
           THEN insert_unique_loop(t, node, t.left[current])
           ELSE return(link_left(t, current, node), TRUE)
    ELSE IF value_comp(t, current, node)
      THEN IF t.right[current] # Nil
             THEN insert_unique_loop(t, node, t.right[current])
             ELSE return(link_right(t, current, node), TRUE)
      ELSE return(t, FALSE)

insert_unique(t, node) ==
  IF t.root = Nil
    THEN return(grow(link_root(t, node)), TRUE)
    ELSE insert_unique_loop(t, node, t.root)

RECURSIVE insert_or_replace_loop(_, _, _)
insert_or_replace_loop(t, node, current) ==
  IF value_comp(t, current, node)
    THEN IF t.left[current] # Nil
           THEN insert_or_replace_loop(t, node, t.left[current])
           ELSE return(link_left(t, current, node), Nil)
    ELSE IF value_comp(t, node, current)
      THEN IF t.right[current] # Nil
             THEN insert_or_replace_loop(t, node, t.right[current])
             ELSE return(link_right(t, current, node), Nil)
      ELSE return(replace(t, current, node), current)

insert_or_replace(t, node) ==
  IF t.root = Nil
    THEN return(link_root(t, node), Nil)
    ELSE insert_or_replace_loop(t, node, t.root)

\* insert_multi that turns a tie away as insert_unique does
RECURSIVE insert_multi_loop_reject(_, _, _)
insert_multi_loop_reject(t, node, current) ==
  IF value_comp(t, node, current)
    THEN IF t.left[current] # Nil
           THEN insert_multi_loop_reject(t, node, t.left[current])
           ELSE link_left(t, current, node)
    ELSE IF value_comp(t, current, node)
      THEN IF t.right[current] # Nil
             THEN insert_multi_loop_reject(t, node, t.right[current])
             ELSE link_right(t, current, node)
      ELSE t

RECURSIVE insert_multi_loop(_, _, _)
insert_multi_loop(t, node, current) ==
  IF value_comp(t, node, current)
    THEN IF t.left[current] # Nil
           THEN insert_multi_loop(t, node, t.left[current])
           ELSE link_left(t, current, node)
    ELSE IF value_comp(t, current, node)
      THEN IF t.right[current] # Nil
             THEN insert_multi_loop(t, node, t.right[current])
             ELSE link_right(t, current, node)
      ELSE IF t.left[current] = Nil
        THEN link_left(t, current, node)
        ELSE IF t.right[current] = Nil
          THEN link_right(t, current, node)
          ELSE IF t.height[t.left[current]] < t.height[t.right[current]]
            THEN insert_multi_loop(t, node, t.left[current])
            ELSE insert_multi_loop(t, node, t.right[current])

insert_multi(t, node) ==
  IF t.root = Nil
    THEN grow(link_root(t, node))
    ELSE insert_multi_loop(t, node, t.root)

\* while ((left = node->left()) != nullptr) node = left;
RECURSIVE leftmost(_, _)
leftmost(t, node) ==
  IF t.left[node] # Nil THEN leftmost(t, t.left[node]) ELSE node

\* while (node->right() != nullptr) node = node->right();
RECURSIVE rightmost(_, _)
rightmost(t, node) ==
  IF t.right[node] # Nil THEN rightmost(t, t.right[node]) ELSE node

\* the for (;;) of next(): climb until the step up left a left child
RECURSIVE next_up(_, _, _)
next_up(t, node, last) ==
  IF node = Nil THEN Nil
  ELSE IF t.left[node] = last THEN node
  ELSE next_up(t, t.parent[node], node)

\* next() that takes the parent whenever there is no right child
next_parent(t, self) ==
  IF t.right[self] # Nil THEN leftmost(t, t.right[self]) ELSE t.parent[self]

\* avl_node::next
next(t, self) ==
  IF t.right[self] # Nil THEN leftmost(t, t.right[self])
  ELSE next_up(t, t.parent[self], self)

\* the for (;;) of prev(): climb until the step up left a right child
RECURSIVE prev_up(_, _, _)
prev_up(t, node, last) ==
  IF node = Nil THEN Nil
  ELSE IF t.right[node] = last THEN node
  ELSE prev_up(t, t.parent[node], node)

\* avl_node::prev
prev(t, self) ==
  IF t.left[self] # Nil THEN rightmost(t, t.left[self])
  ELSE prev_up(t, t.parent[self], self)

\* if (parent != nullptr) parent->rebalance(*this);  mSize -= 1;
erase_finish(t, parent) ==
  shrink(IF parent # Nil THEN rebalance(t, parent) ELSE t)

\* old->replace_as_child(node, old->parent(), *this);
replace_old(t, old, node) == replace_as_child(t, old, node, t.parent[old])

\* The two-child branch of erase once the successor node is found, with
\* its locals child (node->right()) and parent (node->parent()).
erase_splice(t, old, node, child, parent) ==
  LET t1 == reparent(t, child, parent)
      t2 == replace_as_child(t1, node, child, parent)
      t3 == copy_links(t2, old, node)
      t4 == replace_old(t3, old, node)
      t5 == adopt_left(t4, old, node)
  IN adopt_right(t5, old, node)

\* if (node->parent() == old) parent = node;
erase_start(old, node, parent) == IF parent = old THEN node ELSE parent

\* the two-child branch that starts the walk at the successor's old parent
\* in every case
erase_two_parent(t, old, node, child, parent) ==
  erase_finish(erase_splice(t, old, node, child, parent), parent)

erase_two(t, old, node, child, parent) ==
  erase_finish(erase_splice(t, old, node, child, parent),
               erase_start(old, node, parent))

\* the other branch without "if (child) child->mParent = parent"
erase_one_orphan(t, node, child, parent) ==
  erase_finish(replace_as_child(t, node, child, parent), parent)

\* The other branch, with its locals child and parent.
erase_one(t, node, child, parent) ==
  erase_finish(reparent(replace_as_child(t, node, child, parent),
                        child, parent),
               parent)

\* the successor walk of the two-child branch, then the branch
erase_succ(t, old, node) ==
  erase_two(t, old, node, t.right[node], t.parent[node])

erase(t, obj) ==
  IF t.left[obj] # Nil /\ t.right[obj] # Nil
    THEN erase_succ(t, obj, leftmost(t, t.right[obj]))
    ELSE erase_one(t, obj,
                   IF t.left[obj] = Nil THEN t.right[obj] ELSE t.left[obj],
                   t.parent[obj])

RECURSIVE find_loop(_, _, _)
find_loop(t, v, node) ==
  IF node = Nil THEN Nil
  ELSE IF v < t.val[node] THEN find_loop(t, v, t.left[node])
  ELSE IF t.val[node] < v THEN find_loop(t, v, t.right[node])
  ELSE node

\* find(const_reference value), for a probe object holding v
find(t, v) == find_loop(t, v, t.root)

\* The three-way comparisons a caller passes to find(fn, value): "sign"
\* is the lambda of set::find (-1, 1 or 0 from key_comp), "diff" the
\* difference of the two integers.
Comparisons == {"sign", "diff"}

fn(which, v, w) ==
  IF which = "sign"
    THEN IF v < w THEN -1 ELSE IF w < v THEN 1 ELSE 0
    ELSE v - w

\* find(fn, value) that takes a non-zero result for "go right"
RECURSIVE find_fn_loop_right(_, _, _, _)
find_fn_loop_right(t, which, v, node) ==
  IF node = Nil THEN Nil
  ELSE IF fn(which, v, t.val[node]) # 0
    THEN find_fn_loop_right(t, which, v, t.right[node])
  ELSE node

RECURSIVE find_fn_loop(_, _, _, _)
find_fn_loop(t, which, v, node) ==
  IF node = Nil THEN Nil
  ELSE IF fn(which, v, t.val[node]) < 0
    THEN find_fn_loop(t, which, v, t.left[node])
  ELSE IF fn(which, v, t.val[node]) > 0
    THEN find_fn_loop(t, which, v, t.right[node])
  ELSE node

\* find(Fn &&fn, Value &&value)
find_fn(t, which, v) == find_fn_loop(t, which, v, t.root)

\* handler(node) as the caller may write it: "keep" leaves the object
\* alone, "zero" overwrites the node's storage (memset / destroy).
handler(t, node, mode) ==
  IF mode = "zero"
    THEN [t EXCEPT !.parent[node] = Nil, !.left[node] = Nil,
                   !.right[node] = Nil, !.height[node] = 0,
                   !.seq = Append(t.seq, node)]
    ELSE [t EXCEPT !.seq = Append(t.seq, node)]

RECURSIVE clear_impl(_, _, _)

\* if (left != nullptr) clear_impl(left, handler);  and the same for right
clear_child(t, child, mode) ==
  IF child # Nil THEN clear_impl(t, child, mode) ELSE t

\* a walk that runs handler first and reads the node's links afterwards
clear_late(h, node, mode) ==
  clear_child(clear_child(h, h.left[node], mode), h.right[node], mode)

clear_impl_late(t, node, mode) == clear_late(handler(t, node, mode), node, mode)

\* left and right are read from the node before handler runs
clear_impl(t, node, mode) ==
  clear_child(clear_child(handler(t, node, mode), t.left[node], mode),
              t.right[node], mode)

\* mValue.first() = nullptr;  mSize = 0;
clear_done(t) == [t EXCEPT !.root = Nil, !.size = 0]

clear(t, mode) ==
  IF t.root # Nil THEN clear_done(clear_impl(t, t.root, mode)) ELSE t

\* ---- avl_tree_iterator ----------------------------------------------------
\* the address of the one tree; a null mTree is Nil
This == 1

\* avl_tree_iterator(tree, node)
iterator(tree, node) == [mTree |-> tree, mPtr |-> node]

\* begin(): "return nullptr" builds the iterator from a null tree pointer
\* and the default null node
begin(t) ==
  IF t.root = Nil THEN iterator(Nil, Nil)
  ELSE iterator(This, leftmost(t, t.root))

end(t) == iterator(This, Nil)

\* operator==
iterator_eq(a, b) == a.mTree = b.mTree /\ a.mPtr = b.mPtr

\* operator++
pre_increment(t, it) ==
  IF it.mPtr # Nil THEN iterator(it.mTree, next(t, it.mPtr)) ELSE it

\* operator--: what it may leave.  With mPtr null it reads mTree->root();
\* through a null mTree that is a null dereference, after which the
\* iterator may hold anything.
pre_decrement(t, it) ==
  IF it.mPtr # Nil THEN {iterator(it.mTree, prev(t, it.mPtr))}
  ELSE IF it.mTree = Nil
    THEN [mTree : {Nil, This}, mPtr : DOMAIN t.parent \cup {Nil}]
  ELSE IF t.root = Nil THEN {it}
  ELSE {iterator(it.mTree, rightmost(t, t.root))}

\* ---- structure read off the links ---------------------------------------
\* nodes reached from node by left/right links, in-order
RECURSIVE InOrder(_, _)
InOrder(t, node) ==
  IF node = Nil THEN <<>>
  ELSE InOrder(t, t.left[node]) \o <<node>> \o InOrder(t, t.right[node])

Range(s) == {s[i] : i \in 1..Len(s)}

Reachable(t) == Range(InOrder(t, t.root))

ValuesOf(t, s) == [i \in 1..Len(s) |-> t.val[s[i]]]

\* longest root-to-leaf node count below node
RECURSIVE Depth(_, _)
Depth(t, node) ==
  IF node = Nil THEN 0
  ELSE Max(Depth(t, t.left[node]), Depth(t, t.right[node])) + 1

\* ---- the program ---------------------------------------------------------
HandlerModes == {"keep", "zero"}

\* The values of the objects the caller builds at each address.  Only their
\* order is looked at (value_comp), so every weak order of the addresses is
\* covered by the rank functions that start at 1 and rise by 0 or 1.
Pools ==
  {f \in [Nodes -> Keys] :
     /\ f[1] = 1
     /\ \A n \in Nodes \ {1} : f[n] \in {f[n - 1], f[n - 1] + 1}}

NoWalk == [fixes |-> <<>>, stop |-> Nil]

Walk(t) == [fixes |-> t.fixes, stop |-> t.stop]

Init ==
  /\ root = Nil
  /\ mSize = 0
  /\ mParent = [n \in Nodes |-> Nil]
  /\ mLeft = [n \in Nodes |-> Nil]
  /\ mRight = [n \in Nodes |-> Nil]
  /\ mHeight = [n \in Nodes |-> 0]
  /\ value \in Pools
  /\ linked = {}
  /\ lastOp = "init"
  /\ lastNode = Nil
  /\ lastRet = Nil
  /\ lastWalk = NoWalk
  /\ visited = <<>>
  /\ view = NoView

\* Storage the caller holds that is not linked (S): the caller has destroyed
\* the objects there (or will build new ones), so their fields hold nothing.
Release(t, S) ==
  [t EXCEPT
     !.parent = [n \in DOMAIN t.parent |-> IF n \in S THEN Nil ELSE t.parent[n]],
     !.left = [n \in DOMAIN t.left |-> IF n \in S THEN Nil ELSE t.left[n]],
     !.right = [n \in DOMAIN t.right |-> IF n \in S THEN Nil ELSE t.right[n]],
     !.height = [n \in DOMAIN t.height |-> IF n \in S THEN 0 ELSE t.height[n]]]

\* the fields of the tree and of every node, as a call left them
Publish(u) ==
  /\ root' = u.root
  /\ mSize' = u.size
  /\ mParent' = u.parent
  /\ mLeft' = u.left
  /\ mRight' = u.right
  /\ mHeight' = u.height
  /\ value' = u.val

\* the state after a member function has run and the caller has destroyed
\* the nodes that are not linked (keep: those that are)
Store(t, keep) ==
  /\ Publish(Release(t, DOMAIN value \ keep))
  /\ linked' = keep

\* What the link fields of an object handed to an insert may hold: those of
\* a default-constructed avl_node (Nil), or links left over from an earlier
\* use, which may point into the tree (the root).
Stale == {Nil, root}

\* the caller builds its object at the free address n
Construct(n, g) ==
  [Heap EXCEPT !.parent[n] = g, !.left[n] = g, !.right[n] = g,
               !.height[n] = IF g = Nil THEN 0 ELSE MaxNodes]

\* what a call leaves: the heap, the linked nodes and the call's results
Commit(t, keep, ret) ==
  /\ Store(t, keep)
  /\ lastRet' = ret
  /\ lastWalk' = Walk(t)
  /\ visited' = t.seq
  /\ UNCHANGED view

UniqueDone(t, n) ==
  Commit(t, IF t.ret THEN linked \cup {n} ELSE linked, t.ret)

InsertUnique(n, g) ==
  /\ n \in Nodes \ linked
  /\ lastOp' = "insert_unique"
  /\ lastNode' = n
  /\ UniqueDone(insert_unique(Construct(n, g), n), n)

ReplaceDone(t, n) == Commit(t, (linked \ {t.ret}) \cup {n}, t.ret)

InsertOrReplace(n, g) ==
  /\ n \in Nodes \ linked
  /\ lastOp' = "insert_or_replace"
  /\ lastNode' = n
  /\ root = Nil => Cardinality(linked) - mSize < MaxDrift
  /\ ReplaceDone(insert_or_replace(Construct(n, g), n), n)

InsertMulti(n, g) ==
  /\ n \in Nodes \ linked
  /\ lastOp' = "insert_multi"
  /\ lastNode' = n
  /\ Commit(insert_multi(Construct(n, g), n), linked \cup {n}, Nil)

Erase(n) ==
  /\ n \in linked
  /\ lastOp' = "erase"
  /\ lastNode' = n
  /\ Commit(erase(Heap, n), linked \ {n}, Nil)

\* clear returns nothing: lastRet keeps which handler the caller passed
Clear(mode) ==
  /\ lastOp' = "clear"
  /\ lastNode' = Nil
  /\ Commit(clear(Heap, mode), {}, mode)

DoInsertUnique ==
  \E n \in Nodes, g \in Stale : InsertUnique(n, g)
DoInsertOrReplace ==
  \E n \in Nodes, g \in Stale : InsertOrReplace(n, g)
DoInsertMulti ==
  \E n \in Nodes, g \in Stale : InsertMulti(n, g)
DoErase == \E n \in Nodes : Erase(n)
DoClear == \E mode \in HandlerModes : Clear(mode)

Next ==
  \/ DoInsertUnique
  \/ DoInsertOrReplace
  \/ DoInsertMulti
  \/ DoErase
  \/ DoClear

Spec == Init /\ [][Next]_vars

\* insert_unique and erase only: the calls the set wrapper makes
NextUnique ==
  \/ DoInsertUnique
  \/ DoErase

SpecUnique == Init /\ [][NextUnique]_vars

\* every call but insert_or_replace
NextNoReplace ==
  \/ DoInsertUnique
  \/ DoInsertMulti
  \/ DoErase
  \/ DoClear

SpecNoReplace == Init /\ [][NextNoReplace]_vars

\* insert_multi only
NextMulti == DoInsertMulti

SpecMulti == Init /\ [][NextMulti]_vars

\* ---- a caller that builds a tall tree and takes leaves off it ----------
\* number of nodes of the sparsest AVL tree of height h: a root over such
\* trees of heights h-1 (left) and h-2 (right)
RECURSIVE SparseSize(_)
SparseSize(h) ==
  IF h <= 0 THEN 0 ELSE 1 + SparseSize(h - 1) + SparseSize(h - 2)

DeepNodes == 1..SparseSize(DeepHeight)

\* depth of key k in that tree when it holds the keys lo, lo+1, ...
RECURSIVE SparseDepth(_, _, _)
SparseDepth(h, lo, k) ==
  IF k = lo + SparseSize(h - 1) THEN 1
  ELSE IF k < lo + SparseSize(h - 1) THEN 1 + SparseDepth(h - 1, lo, k)
  ELSE 1 + SparseDepth(h - 2, lo + SparseSize(h - 1) + 1, k)

DepthOf == [k \in DeepNodes |-> SparseDepth(DeepHeight, 1, k)]

\* the keys level by level: inserted in this order no insert_unique call
\* has anything to rotate and the tree comes out as the sparsest one
Script ==
  [i \in DeepNodes |->
     CHOOSE k \in DeepNodes :
       Cardinality({j \in DeepNodes :
                      \/ DepthOf[j] < DepthOf[k]
                      \/ DepthOf[j] = DepthOf[k] /\ j < k}) = i - 1]

InitDeep ==
  /\ root = Nil
  /\ mSize = 0
  /\ mParent = [n \in DeepNodes |-> Nil]
  /\ mLeft = [n \in DeepNodes |-> Nil]
  /\ mRight = [n \in DeepNodes |-> Nil]
  /\ mHeight = [n \in DeepNodes |-> 0]
  /\ value = [n \in DeepNodes |-> n]
  /\ linked = {}
  /\ lastOp = "init"
  /\ lastNode = Nil
  /\ lastRet = Nil
  /\ lastWalk = NoWalk
  /\ visited = <<>>
  /\ view = NoView

\* for (auto &element : elements) tree.insert_unique(&element);
ScriptInsert(n) ==
  /\ lastOp \in {"init", "insert_unique"}
  /\ linked # DeepNodes
  /\ n = Script[Cardinality(linked) + 1]
  /\ lastOp' = "insert_unique"
  /\ lastNode' = n
  /\ UniqueDone(insert_unique(Construct(n, Nil), n), n)

\* afterwards the caller erases nodes that have no child, in any order
LeafErase(n) ==
  /\ linked = DeepNodes \/ lastOp = "erase"
  /\ n \in linked
  /\ mLeft[n] = Nil
  /\ mRight[n] = Nil
  /\ Erase(n)

DoScriptInsert == \E n \in DeepNodes : ScriptInsert(n)
DoLeafErase == \E n \in DeepNodes : LeafErase(n)

NextDeep ==
  \/ DoScriptInsert
  \/ DoLeafErase

SpecDeep == InitDeep /\ [][NextDeep]_vars

\* ---- set -----------------------------------------------------------------
\* The set object: mValue.first() is the tree (tree), mValue.second() the
\* allocator, of which alloc keeps the nodes it has handed out and not got
\* back; ret is what the last member function returned.  A set_node is an
\* avl_node with the key mKey, the node's val; a destroyed key is 0.
SetObj == [tree |-> Heap, alloc |-> linked, ret |-> Nil]

\* allocator_traits::allocate(mValue.second(), 1), returning node
allocate(s, node) == [s EXCEPT !.alloc = s.alloc \cup {node}]

\* allocator_traits::construct: set_node(args...) builds mKey and the
\* avl_node with its default member initializers
construct(s, node, key) ==
  [s EXCEPT !.tree.val[node] = key, !.tree.parent[node] = Nil,
            !.tree.left[node] = Nil, !.tree.right[node] = Nil,
            !.tree.height[node] = 0]

\* allocator_traits::destroy / p->mKey.~Key()
destroy(s, node) == [s EXCEPT !.tree.val[node] = 0]

\* allocator_traits::deallocate(mValue.second(), node, 1)
deallocate(s, node) == [s EXCEPT !.alloc = s.alloc \ {node}]

\* the tree after a call on mValue.first()
on_tree(s, t) == [s EXCEPT !.tree = t]

set_return(s, v) == [s EXCEPT !.ret = v]

set_end(s) == end(s.tree)

set_size(s) == size(s.tree)

\* emplace that keeps the node it could not insert
emplace_done_leak(s, node) ==
  IF ~s.tree.ret
    THEN set_return(s, <<set_end(s), FALSE>>)
    ELSE set_return(s, <<iterator(This, node), TRUE>>)

\* emplace after insert_unique has returned success (s.tree.ret)
emplace_done(s, node) ==
  IF ~s.tree.ret
    THEN set_return(deallocate(destroy(s, node), node), <<set_end(s), FALSE>>)
    ELSE set_return(s, <<iterator(This, node), TRUE>>)

emplace_insert(s, node) ==
  emplace_done(on_tree(s, insert_unique(s.tree, node)), node)

\* emplace(args...): node is the storage the allocator hands out, key the
\* key the arguments build
set_emplace(s, node, key) ==
  emplace_insert(construct(allocate(s, node), node, key), node)

\* insert(value)
set_insert(s, node, key) == set_emplace(s, node, key)

\* mValue.first().erase(p); destroy(p); deallocate(p);
set_erase_node(s, p) ==
  deallocate(destroy(on_tree(s, erase(s.tree, p)), p), p)

\* erase(iterator pos)
set_erase_pos(s, pos) == set_erase_node(s, pos.mPtr)

\* erase(key) once find has returned p
set_erase_found(s, p) ==
  IF p = Nil
    THEN set_return(s, 0)
    ELSE set_return(set_erase_node(s, p), 1)

\* erase(const key_type &)
set_erase(s, key) == set_erase_found(s, find_fn(s.tree, "sign", key))

\* what clear's lambda did to the nodes the tree passed to it (t.seq): the
\* key of each destroyed, the storage of each given back
set_clear_done(s, t) ==
  [s EXCEPT !.tree = [t EXCEPT !.val = [n \in DOMAIN t.val |->
                                          IF n \in Range(t.seq) THEN 0
                                          ELSE t.val[n]]],
            !.alloc = s.alloc \ Range(t.seq)]

\* clear()
set_clear(s) == set_clear_done(s, clear(s.tree, "zero"))

InitSet ==
  /\ root = Nil
  /\ mSize = 0
  /\ mParent = [n \in Nodes |-> Nil]
  /\ mLeft = [n \in Nodes |-> Nil]
  /\ mRight = [n \in Nodes |-> Nil]
  /\ mHeight = [n \in Nodes |-> 0]
  /\ value = [n \in Nodes |-> 0]
  /\ linked = {}
  /\ lastOp = "init"
  /\ lastNode = Nil
  /\ lastRet = [key |-> 0, ret |-> Nil]
  /\ lastWalk = NoWalk
  /\ visited = <<>>
  /\ view = NoView

\* what a call on the set leaves; key is the argument of the call
CommitSet(s, key) ==
  /\ Store(s.tree, s.alloc)
  /\ lastRet' = [key |-> key, ret |-> s.ret]
  /\ lastWalk' = Walk(s.tree)
  /\ visited' = s.tree.seq
  /\ UNCHANGED view

SetEmplace(n, k) ==
  /\ n \in Nodes \ linked
  /\ lastOp' = "emplace"
  /\ lastNode' = n
  /\ CommitSet(set_emplace(SetObj, n, k), k)

SetInsert(n, k) ==
  /\ n \in Nodes \ linked
  /\ lastOp' = "insert"
  /\ lastNode' = n
  /\ CommitSet(set_insert(SetObj, n, k), k)

SetEraseKey(k) ==
  /\ lastOp' = "erase_key"
  /\ lastNode' = Nil
  /\ CommitSet(set_erase(SetObj, k), k)

\* pos is an iterator to an element: assert(pos != end())
SetErasePos(n) ==
  /\ n \in linked
  /\ ~iterator_eq(iterator(This, n), set_end(SetObj))
  /\ lastOp' = "erase_pos"
  /\ lastNode' = n
  /\ CommitSet(set_erase_pos(SetObj, iterator(This, n)), value[n])

SetClear ==
  /\ lastOp' = "set_clear"
  /\ lastNode' = Nil
  /\ CommitSet(set_clear(SetObj), 0)

DoSetEmplace == \E n \in Nodes, k \in Keys : SetEmplace(n, k)
DoSetInsert == \E n \in Nodes, k \in Keys : SetInsert(n, k)
DoSetEraseKey == \E k \in Keys : SetEraseKey(k)
DoSetErasePos == \E n \in Nodes : SetErasePos(n)

NextSet ==
  \/ DoSetEmplace
  \/ DoSetInsert
  \/ DoSetEraseKey
  \/ DoSetErasePos
  \/ SetClear

SpecSet == InitSet /\ [][NextSet]_vars

\* ---- basic_string_view ----------------------------------------------------
\* static constexpr size_type npos = size_type(-1), on the reading of
\* size_type the header comment gives for mSize
npos == -1

Chars == {"a", "b"}

\* the character sequences a view may cover, MaxLen characters at most
Views == UNION {[1..k -> Chars] : k \in 0..MaxLen}

Positions == (0..MaxLen) \cup {npos}

\* What the for loop of rfind(CharT, size_type) returns with p at offset i
\* from data().  Once i is below 0 the loop has formed data() - 1, which is
\* outside the array: the comparison p >= data() may end the loop (npos) or
\* the loop may go on reading below the view and return the offset of
\* whatever it meets there.
RECURSIVE rfind_loop(_, _, _)
rfind_loop(s, c, i) ==
  IF i < 0 THEN {npos - k : k \in 0..MaxLen}
  ELSE IF s[i + 1] = c THEN {i}
  ELSE rfind_loop(s, c, i - 1)

\* rfind(CharT c, size_type pos): "return false" on an empty view; pos is
\* not read
rfind(s, c, pos) ==
  IF Len(s) = 0 THEN {0} ELSE rfind_loop(s, c, Len(s) - 1)

InitView ==
  /\ root = Nil
  /\ mSize = 0
  /\ mParent = [n \in Nodes |-> Nil]
  /\ mLeft = [n \in Nodes |-> Nil]
  /\ mRight = [n \in Nodes |-> Nil]
  /\ mHeight = [n \in Nodes |-> 0]
  /\ value = [n \in Nodes |-> n]
  /\ linked = {}
  /\ lastOp = "init"
  /\ lastNode = Nil
  /\ lastRet = Nil
  /\ lastWalk = NoWalk
  /\ visited = <<>>
  /\ view \in [data : Views, c : Chars, pos : Positions, ret : {<<>>}]

\* the caller calls view.rfind(c, pos)
Rfind ==
  /\ view.ret = <<>>
  /\ \E r \in rfind(view.data, view.c, view.pos) :
       view' = [view EXCEPT !.ret = <<r>>]
  /\ UNCHANGED <<root, mSize, mParent, mLeft, mRight, mHeight, value,
                 linked, lastOp, lastNode, lastRet, lastWalk, visited>>

NextView == Rfind

SpecView == InitView /\ [][NextView]_vars

TypeOK ==
  /\ root \in Nodes \cup {Nil}
  /\ linked \subseteq Nodes

\* ---- properties ----------------------------------------------------------
Abs(d) == IF d < 0 THEN 0 - d ELSE d

InOrderValues == ValuesOf(Heap, InOrder(Heap, root))

HasEqual(n) == \E e \in linked : value[e] = value[n]

\* C1: AVL balance. After any sequence of insert_unique / insert_multi /
\* insert_or_replace / erase calls every node reachable from root has
\* |height(left) - height(right)| <= 1, an absent child counting 0.
C1_AVLBalance ==
  \A n \in Reachable(Heap) :
    Abs(child_height(Heap, mLeft[n]) - child_height(Heap, mRight[n])) <= 1

\* C2: Sorted order. After any sequence of insert / erase calls the
\* in-order traversal from root is non-decreasing under the ordering.
C2_Sorted ==
  \A i \in 1..(Len(InOrderValues) - 1) : InOrderValues[i] <= InOrderValues[i + 1]

\* C3: Size consistency. After every completed public operation size()
\* is the number of nodes reachable from root, and root is null iff
\* size() = 0.
C3_SizeConsistent ==
  /\ size(Heap) = Cardinality(Reachable(Heap))
  /\ (root = Nil) <=> (size(Heap) = 0)

\* C4: Stored heights. After every completed public operation every node
\* reachable from root stores 1 + max(height(left), height(right)), an
\* absent child counting 0; the stored height is then the longest
\* node count down to a leaf.
C4_HeightsCorrect ==
  \A n \in Reachable(Heap) :
    /\ mHeight[n] =
         1 + Max(child_height(Heap, mLeft[n]), child_height(Heap, mRight[n]))
    /\ mHeight[n] = Depth(Heap, n)

\* C4 witness: an operation whose rebalance walk applied a fix-up has
\* completed and left a tree of height 3 or more.
C4_Witness ==
  /\ lastWalk.fixes # <<>>
  /\ root # Nil
  /\ mHeight[root] >= 3

\* C5: find is exact. find(v) returns a linked node equal to v whenever one
\* is linked, and null only when none is.
C5_FindExact ==
  \A v \in Keys :
    LET f == find(Heap, v)
    IN IF \E e \in linked : value[e] = v
         THEN f \in linked /\ value[f] = v
         ELSE f = Nil

\* C6: Duplicate rejection. insert_unique of a node comparing equal to a
\* linked node returns false, leaves root, size() and every linked
\* node's parent/left/right/height as they were, and the incoming node
\* is not reachable from root.
C6_DuplicateRejected ==
  [][\A n \in Nodes, g \in Stale :
       (InsertUnique(n, g) /\ HasEqual(n)) =>
         /\ lastRet' = FALSE
         /\ root' = root
         /\ mSize' = mSize
         /\ \A m \in linked :
              /\ mParent'[m] = mParent[m]
              /\ mLeft'[m] = mLeft[m]
              /\ mRight'[m] = mRight[m]
              /\ mHeight'[m] = mHeight[m]
         /\ n \notin Reachable(Heap')]_vars

\* C7: Uniqueness. After insert_unique and erase calls only, no two linked
\* nodes compare equal: the in-order sequence is strictly increasing and
\* every node has only smaller values in its left subtree and only
\* greater values in its right subtree.
C7_StrictOrder ==
  /\ \A i \in 1..(Len(InOrderValues) - 1) :
       InOrderValues[i] < InOrderValues[i + 1]
  /\ \A n \in Reachable(Heap) :
       /\ \A m \in Range(InOrder(Heap, mLeft[n])) : value[m] < value[n]
       /\ \A m \in Range(InOrder(Heap, mRight[n])) : value[n] < value[m]
  /\ \A a, b \in linked : value[a] = value[b] => a = b

\* C7 witness: a duplicate has just been offered to a tree of three or
\* more nodes and turned away.
C7_Witness ==
  /\ lastOp = "insert_unique"
  /\ lastRet = FALSE
  /\ Cardinality(linked) >= 3

\* the sequence s with every occurrence of a replaced by b
Subst(s, a, b) == [i \in 1..Len(s) |-> IF s[i] = a THEN b ELSE s[i]]

\* C8: Replace. insert_or_replace of a node comparing equal to a linked
\* node returns that linked node (not the new one), links the new node at
\* its in-order position, leaves the returned node unreachable and
\* size() unchanged.
C8_Replace ==
  [][\A n \in Nodes, g \in Stale :
       (InsertOrReplace(n, g) /\ HasEqual(n)) =>
         /\ lastRet' \in linked
         /\ lastRet' # n
         /\ value[lastRet'] = value[n]
         /\ InOrder(Heap', root') = Subst(InOrder(Heap, root), lastRet', n)
         /\ lastRet' \notin Reachable(Heap')
         /\ mSize' = mSize]_vars

\* the links and heights of the tree an insert leaves
Shape(t) ==
  [root |-> t.root,
   node |-> [n \in Reachable(t) |->
               <<t.parent[n], t.left[n], t.right[n], t.height[n]>>]]

\* C9: Shared descent. For a new value with no equal node linked the three
\* insert variants link the node at the same slot and leave the same
\* tree (root, links, heights).
C9_SharedDescent ==
  \A n \in Nodes \ linked, g \in Stale :
    ~HasEqual(n) =>
      /\ Shape(insert_unique(Construct(n, g), n)) =
           Shape(insert_multi(Construct(n, g), n))
      /\ Shape(insert_unique(Construct(n, g), n)) =
           Shape(insert_or_replace(Construct(n, g), n))

\* C10: Every insertion that links a new node without displacing one
\* (insert_unique returning true, insert_multi, insert_or_replace
\* returning null) increases size() by exactly 1.
C10_SizeGrows ==
  [][\A n \in Nodes, g \in Stale :
       (\/ InsertUnique(n, g) /\ lastRet' = TRUE
        \/ InsertMulti(n, g)
        \/ InsertOrReplace(n, g) /\ lastRet' = Nil) =>
         mSize' = mSize + 1]_vars

\* the sequence s without x
Without(s, x) == SelectSeq(s, LAMBDA e : e # x)

UniqueKeys == \A a, b \in linked : value[a] = value[b] => a = b

\* C11: erase removes exactly one node. For any linked node x, after
\* erase(x) x is not reachable from root, every other linked node is still
\* reachable with the in-order sequence unchanged but for x, size() is one
\* less, and with unique keys find of x's value returns null while find
\* of every other linked value returns its node.
C11_EraseOne ==
  [][\A x \in Nodes :
       Erase(x) =>
         /\ x \notin Reachable(Heap')
         /\ InOrder(Heap', root') = Without(InOrder(Heap, root), x)
         /\ mSize' = mSize - 1
         /\ UniqueKeys =>
              /\ find(Heap', value[x]) = Nil
              /\ \A m \in linked \ {x} : find(Heap', value[m]) = m]_vars

\* how many times k occurs in s
Count(s, k) == Cardinality({i \in 1..Len(s) : s[i] = k})

NonDecreasing(s) == \A i \in 1..(Len(s) - 1) : s[i] <= s[i + 1]

\* C12: insert_multi never rejects. Every insert_multi call links the node
\* and increases size() by 1, equal values linked or not, and after any
\* sequence of insert_multi calls the in-order sequence is the sorted
\* multiset of the inserted values.
C12_MultiLinks ==
  [][\A n \in Nodes, g \in Stale :
       InsertMulti(n, g) =>
         /\ n \in Reachable(Heap')
         /\ mSize' = mSize + 1
         /\ mSize' = Cardinality(linked')
         /\ Len(InOrder(Heap', root')) = Cardinality(linked')
         /\ Range(InOrder(Heap', root')) = linked'
         /\ NonDecreasing(ValuesOf(Heap', InOrder(Heap', root')))
         /\ \A k \in Keys :
              Count(ValuesOf(Heap', InOrder(Heap', root')), k) =
                Cardinality({m \in linked' : value[m] = k})]_vars

\* C12 witness: the values [5, 3, 5, 8, 5] (ranks 2, 1, 2, 3, 2) have all
\* been linked by insert_multi: size 5, in-order 1, 2, 2, 2, 3.
C12_Witness ==
  /\ lastOp = "insert_multi"
  /\ linked = Nodes
  /\ mSize = MaxNodes
  /\ \E a, b \in linked : a # b /\ value[a] = value[b]
  /\ \E a, b, c \in linked :
       /\ value[a] < value[b] /\ value[b] < value[c]
       /\ Cardinality({m \in linked : value[m] = value[b]}) >= 3
  /\ NonDecreasing(InOrderValues)

\* C13: Clear completeness. clear(visit) invokes visit exactly once for
\* each node linked before the call and for no other; afterwards root is
\* null, size() is 0 and find of any value stored before returns null;
\* on an empty tree visit is never invoked.
C13_ClearComplete ==
  [][\A mode \in HandlerModes :
       Clear(mode) =>
         /\ Range(visited') = linked
         /\ Len(visited') = Cardinality(linked)
         /\ root' = Nil
         /\ size(Heap') = 0
         /\ \A m \in linked : find(Heap', value[m]) = Nil
         /\ linked = {} => visited' = <<>>]_vars

\* node, then its left subtree, then its right subtree
RECURSIVE PreOrder(_, _)
PreOrder(t, node) ==
  IF node = Nil THEN <<>>
  ELSE <<node>> \o PreOrder(t, t.left[node]) \o PreOrder(t, t.right[node])

\* C14: Clear tolerates destructive visitors. clear visits the nodes in
\* pre-order (a node, then its left subtree, then its right subtree) as
\* the links stood before the call, whether visit leaves the node alone or
\* overwrites its parent/left/right/height: every linked node is visited
\* exactly once and nothing visit wrote is followed.
C14_ClearPreOrder ==
  [][\A mode \in HandlerModes :
       Clear(mode) =>
         /\ visited' = PreOrder(Heap, root)
         /\ Range(visited') = linked
         /\ Len(visited') = Cardinality(linked)]_vars

\* C14 witness: a clear whose handler zeroes each node has walked a tree
\* of four or more nodes in which some node has both children.
C14_Witness ==
  /\ lastOp = "clear"
  /\ lastRet = "zero"
  /\ Len(visited) >= 4
  /\ visited[1] # visited[2]
  /\ \E i \in 3..Len(visited) : value[visited[i]] > value[visited[1]]
  /\ value[visited[2]] < value[visited[1]]

\* node reached from x by k applications of next (Nil once past the end)
RECURSIVE NextTimes(_, _, _)
NextTimes(t, x, k) ==
  IF k = 0 \/ x = Nil THEN x ELSE NextTimes(t, next(t, x), k - 1)

\* C15: Successor/predecessor round trip. In every tree the public
\* operations produce next(x) is the in-order successor of x and prev(x)
\* its in-order predecessor, prev(next(x)) = x and next(prev(x)) = x where
\* they exist, prev of the left-most and next of the right-most node are
\* null, and n-1 applications of next lead from the minimum to the maximum.
C15_NextPrev ==
  LET s == InOrder(Heap, root)
      n == Len(s)
  IN /\ \A i \in 1..n :
          /\ next(Heap, s[i]) = (IF i < n THEN s[i + 1] ELSE Nil)
          /\ prev(Heap, s[i]) = (IF i > 1 THEN s[i - 1] ELSE Nil)
          /\ next(Heap, s[i]) # Nil => prev(Heap, next(Heap, s[i])) = s[i]
          /\ prev(Heap, s[i]) # Nil => next(Heap, prev(Heap, s[i])) = s[i]
     /\ root # Nil =>
          /\ prev(Heap, leftmost(Heap, root)) = Nil
          /\ next(Heap, rightmost(Heap, root)) = Nil
          /\ NextTimes(Heap, leftmost(Heap, root), n - 1) = rightmost(Heap, root)

\* C15 witness: a tree of five nodes in which the successor of some node
\* without a right child lies two or more links up, and the predecessor of
\* some node without a left child likewise.
C15_Witness ==
  /\ Cardinality(linked) = MaxNodes
  /\ \E x \in linked :
       /\ mRight[x] = Nil
       /\ next(Heap, x) \notin {Nil, mParent[x]}
  /\ \E x \in linked :
       /\ mLeft[x] = Nil
       /\ prev(Heap, x) \notin {Nil, mParent[x]}

\* ceil(1.44 * log2(n + 2)): the least h with n + 2 <= 2^(h / 1.44); the
\* powers are 4.2, 6.9, 11.1, 18.0, 29.1, 47.0 for h = 3 .. 8
HeightBound(n) ==
  IF n <= 2 THEN 3
  ELSE IF n <= 4 THEN 4
  ELSE IF n <= 9 THEN 5
  ELSE IF n <= 15 THEN 6
  ELSE IF n <= 27 THEN 7
  ELSE 8

\* C16: Height bound. After any sequence of insert and erase calls that
\* leaves n >= 1 linked nodes, the height stored at root and the longest
\* node count from root down to a leaf are at most ceil(1.44 * log2(n + 2)).
C16_HeightBound ==
  root # Nil =>
    /\ mHeight[root] <= HeightBound(Cardinality(linked))
    /\ Depth(Heap, root) <= HeightBound(Cardinality(linked))

\* the values a caller may look up: those of the objects and one below
\* and one above them all
Probes == 0..(MaxNodes + 1)

\* C17: Custom-predicate find agrees with find(value). With a comparison
\* that is negative / zero / positive exactly when the probe is less than /
\* equivalent to / greater than the node, find(fn, probe) returns the node
\* (or null) that find(value) returns for that probe, on every reachable
\* tree.
C17_FindAgrees ==
  \A v \in Probes, which \in Comparisons :
    find_fn(Heap, which, v) = find(Heap, v)

\* C17 witness: a tree of five nodes in which find(fn, probe) returns a
\* node two or more links below the root for one probe and null for
\* another that it looked for down to a leaf.
C17_Witness ==
  /\ Cardinality(linked) = MaxNodes
  /\ \E v \in Probes :
       /\ find_fn(Heap, "diff", v) \in linked \ {root}
       /\ mParent[find_fn(Heap, "diff", v)] # root
  /\ \E v \in Probes : find_fn(Heap, "sign", v) = Nil

\* the iterator after k applications of ++
RECURSIVE Advance(_, _, _)
Advance(t, it, k) ==
  IF k = 0 THEN it ELSE Advance(t, pre_increment(t, it), k - 1)

\* k applications of -- from it yield the nodes s[k], s[k-1], .., s[1]
RECURSIVE Retreats(_, _, _, _)
Retreats(t, it, k, s) ==
  k > 0 =>
    \A d \in pre_decrement(t, it) :
      d.mPtr = s[k] /\ Retreats(t, d, k - 1, s)

\* C18: Full iteration of a non-empty tree. From begin(), ++ visits every
\* linked node exactly once in non-decreasing order and the iterator
\* equals end() after exactly n increments (n the number of linked
\* nodes), where a further ++ leaves it; from end(), -- yields the
\* maximum and then every node in non-increasing order down to the
\* minimum.
C18_FullIteration ==
  LET s == InOrder(Heap, root)
      n == Cardinality(linked)
  IN root # Nil =>
       /\ Len(s) = n
       /\ Range(s) = linked
       /\ \A k \in 0..(n - 1) :
            /\ Advance(Heap, begin(Heap), k).mPtr = s[k + 1]
            /\ ~iterator_eq(Advance(Heap, begin(Heap), k), end(Heap))
       /\ iterator_eq(Advance(Heap, begin(Heap), n), end(Heap))
       /\ iterator_eq(Advance(Heap, begin(Heap), n + 1), end(Heap))
       /\ Retreats(Heap, end(Heap), n, s)
       /\ NonDecreasing(ValuesOf(Heap, s))
       /\ \A m \in linked :
            /\ value[s[1]] <= value[m]
            /\ value[m] <= value[s[n]]

\* the nodes next leads through from x on, x first; the walk is cut after
\* fuel steps
RECURSIVE NextWalk(_, _, _)
NextWalk(t, x, fuel) ==
  IF x = Nil THEN <<>>
  ELSE IF fuel = 0 THEN <<x>>
  ELSE <<x>> \o NextWalk(t, next(t, x), fuel - 1)

IndexOf(s, x) == CHOOSE i \in 1..Len(s) : s[i] = x

\* the nodes of s after x
After(s, x) == SubSeq(s, IndexOf(s, x) + 1, Len(s))

\* C19: Traversal tolerates removal of the current element. With
\* s = next(x) read before erase(x), after erase(x) s is still linked and
\* next from s on leads through exactly the linked nodes that followed x,
\* in order and each once, and then to null.
C19_EraseCurrent ==
  \A x \in linked :
    /\ next(Heap, x) = Nil => After(InOrder(Heap, root), x) = <<>>
    /\ next(Heap, x) # Nil =>
         /\ next(Heap, x) \in Reachable(erase(Heap, x))
         /\ NextWalk(erase(Heap, x), next(Heap, x), Cardinality(linked)) =
              After(InOrder(Heap, root), x)

\* C19 witness: a node with two children whose successor lies below its
\* right child, so that erase moves the successor itself and then
\* rotates on its way up, and after which two or more nodes remain to be
\* walked.
C19_Witness ==
  \E x \in linked :
    /\ mLeft[x] # Nil
    /\ mRight[x] # Nil
    /\ next(Heap, x) \notin {Nil, mRight[x]}
    /\ Len(NextWalk(erase(Heap, x), next(Heap, x), Cardinality(linked))) >= 2
    /\ erase(Heap, x).fixes # <<>>

\* C20: begin() == end() holds if and only if the tree has no linked
\* nodes; on an empty tree (fresh or after clear) begin() compares equal
\* to end().
C20_BeginIsEnd ==
  iterator_eq(begin(Heap), end(Heap)) <=> (Reachable(Heap) = {})

\* C21: empty() returns true exactly when size() == 0 and false
\* otherwise, in every reachable state (set::empty forwards to it).
C21_EmptyIffZero == empty(Heap) <=> (size(Heap) = 0)

\* the lesser of two size_type values, npos being the greatest
MinSize(a, b) == IF a = npos THEN b ELSE IF b = npos THEN a ELSE IF a < b THEN a ELSE b

\* std::basic_string_view::rfind(c, pos): the greatest index
\* i <= min(pos, size() - 1) with s[i] = c, npos when there is none
StdRfind(s, c, pos) ==
  LET hits == {i \in 0..MinSize(pos, Len(s) - 1) : s[i + 1] = c}
  IN IF Len(s) = 0 \/ hits = {} THEN npos
     ELSE CHOOSE i \in hits : \A j \in hits : j <= i

\* C22: string_view::rfind(c, pos) behaves as std::basic_string_view::rfind:
\* it returns the greatest index i <= min(pos, size()-1) with s[i] == c
\* and npos when there is none, npos for an empty view included, for
\* every view, character and pos.
C22_RfindStd ==
  view.ret # <<>> => view.ret[1] = StdRfind(view.data, view.c, view.pos)

\* node n of heap t has children whose heights differ by 1 at most, and
\* stores 1 + the greater of them
Balanced(t, n) ==
  Abs(child_height(t, t.left[n]) - child_height(t, t.right[n])) <= 1

HeightStored(t, n) ==
  t.height[n] =
    1 + Max(child_height(t, t.left[n]), child_height(t, t.right[n]))

\* the AVL invariants over the whole tree
IsAVL(t) == \A n \in Reachable(t) : Balanced(t, n) /\ HeightStored(t, n)

\* n and its ancestors up to the root
RECURSIVE UpPath(_, _)
UpPath(t, n) == IF n = Nil THEN {} ELSE {n} \cup UpPath(t, t.parent[n])

Inserts == {"insert_unique", "insert_multi", "insert_or_replace"}

\* C23: Early termination of rebalance is sound. Whenever the rebalance
\* walk of an insert or an erase on a tree that satisfied the AVL
\* invariants stops at a node because its recomputed height equals its
\* stored height, that node and every ancestor of it up to the root have
\* |height(left) - height(right)| <= 1 and correct stored heights.
C23_EarlyStopSound ==
  [][(/\ IsAVL(Heap)
      /\ lastOp' \in Inserts \cup {"erase"}
      /\ lastWalk'.stop # Nil) =>
       \A n \in UpPath(Heap', lastWalk'.stop) :
         Balanced(Heap', n) /\ HeightStored(Heap', n)]_vars

\* the node a fix-up applied at x put in x's place: x is its child now
FixedRoot(t, x) == t.parent[x]

\* C24: Insertion needs at most one fix-up. When any insert variant links
\* a node into a tree satisfying the AVL invariants, the rebalance walk
\* applies fix_left or fix_right at most once, after a fix-up it stops at
\* the parent of the fixed subtree (if there is one), and the tree it
\* leaves satisfies the AVL invariants.
C24_OneFixUp ==
  [][(IsAVL(Heap) /\ lastOp' \in Inserts) =>
       /\ Len(lastWalk'.fixes) <= 1
       /\ Len(lastWalk'.fixes) = 1 =>
            lastWalk'.stop =
              mParent'[FixedRoot(Heap', lastWalk'.fixes[1])]
       /\ IsAVL(Heap')]_vars

\* C24 witness: an insert into a tree of four nodes has applied one fix-up
\* below the root and its walk has stopped at the parent of the fixed
\* subtree, the root.
C24_Witness ==
  /\ lastOp \in Inserts
  /\ Cardinality(linked) = MaxNodes
  /\ Len(lastWalk.fixes) = 1
  /\ lastWalk.stop = root
  /\ mParent[FixedRoot(Heap, lastWalk.fixes[1])] = root
  /\ IsAVL(Heap)

\* the nodes of the subtree under n
Under(t, n) == Range(InOrder(t, n))

SubAVL(t, n) == \A m \in Under(t, n) : Balanced(t, m) /\ HeightStored(t, m)

Diff(t, n) == child_height(t, t.left[n]) - child_height(t, t.right[n])

\* fix_left may be applied at x: x is two lower on the left and both its
\* subtrees satisfy the AVL invariants; and the same for fix_right
LeftFixable(t, x) ==
  Diff(t, x) = -2 /\ SubAVL(t, t.left[x]) /\ SubAVL(t, t.right[x])

RightFixable(t, x) ==
  Diff(t, x) = 2 /\ SubAVL(t, t.left[x]) /\ SubAVL(t, t.right[x])

\* what fix_left(x) has to leave: u, with the root u.ret of the subtree
FixedLeft(t, x, r, u) ==
  /\ IF Diff(t, r) > 0
       THEN u.ret = t.left[r] /\ u.left[u.ret] = x /\ u.right[u.ret] = r
       ELSE u.ret = r /\ u.left[r] = x /\ u.right[r] = t.right[r]
  /\ InOrder(u, u.ret) = InOrder(t, x)
  /\ u.parent[u.ret] = t.parent[x]
  /\ SubAVL(u, u.ret)

FixedRight(t, x, l, u) ==
  /\ IF Diff(t, l) < 0
       THEN u.ret = t.right[l] /\ u.right[u.ret] = x /\ u.left[u.ret] = l
       ELSE u.ret = l /\ u.right[l] = x /\ u.left[l] = t.left[l]
  /\ InOrder(u, u.ret) = InOrder(t, x)
  /\ u.parent[u.ret] = t.parent[x]
  /\ SubAVL(u, u.ret)

\* C25: Rotation selection restores balance. fix_left(x) at a node x with
\* height(left) - height(right) = -2 whose subtrees satisfy the AVL
\* invariants rotates x.right to the right first exactly when x.right's
\* left subtree is strictly taller than its right one, and only rotates x
\* to the left otherwise (tie included); the subtree root it returns and
\* every node below then have |height(left) - height(right)| <= 1 and
\* correct stored heights. fix_right mirrors it with diff = 2 and '<'.
C25_FixSelects ==
  \A x \in Reachable(Heap) :
    /\ LeftFixable(Heap, x) =>
         FixedLeft(Heap, x, mRight[x], fix_left(Heap, x))
    /\ RightFixable(Heap, x) =>
         FixedRight(Heap, x, mLeft[x], fix_right(Heap, x))

\* C25 witness: a tree holding a node that fix_left has to fix with two
\* rotations, and one holding a tie under the taller child.
C25_Witness ==
  /\ \E x \in linked : LeftFixable(Heap, x) /\ Diff(Heap, mRight[x]) > 0
  /\ \E x \in linked :
       \/ LeftFixable(Heap, x) /\ Diff(Heap, mRight[x]) = 0
       \/ RightFixable(Heap, x) /\ Diff(Heap, mLeft[x]) = 0

\* u differs from t in no link of a node outside touched and in no stored
\* height, value, or the size
SameOutside(t, u, touched) ==
  /\ \A n \in (DOMAIN t.parent) \ touched :
       /\ u.parent[n] = t.parent[n]
       /\ u.left[n] = t.left[n]
       /\ u.right[n] = t.right[n]
  /\ u.height = t.height
  /\ u.val = t.val
  /\ u.size = t.size

\* the edge from x's old parent par leads to c in u, par's other edge is as
\* it was; without a parent c is the root
Repointed(t, u, x, par, c) ==
  /\ u.parent[c] = par
  /\ IF par = Nil
       THEN u.root = c
       ELSE /\ u.root = t.root
            /\ u.parent[par] = t.parent[par]
            /\ IF t.left[par] = x
                 THEN u.left[par] = c /\ u.right[par] = t.right[par]
                 ELSE u.right[par] = c /\ u.left[par] = t.left[par]

\* what rotate_left(x) leaves: r the former right child, inner its former
\* left subtree
RotatedLeft(t, u, x, r, inner) ==
  /\ u.ret = r
  /\ InOrder(u, u.root) = InOrder(t, t.root)
  /\ u.left[r] = x /\ u.parent[x] = r /\ u.right[r] = t.right[r]
  /\ u.right[x] = inner /\ u.left[x] = t.left[x]
  /\ inner # Nil =>
       u.parent[inner] = x /\ u.left[inner] = t.left[inner]
                           /\ u.right[inner] = t.right[inner]
  /\ Repointed(t, u, x, t.parent[x], r)
  /\ SameOutside(t, u, {x, r, inner, t.parent[x]})

RotatedRight(t, u, x, l, inner) ==
  /\ u.ret = l
  /\ InOrder(u, u.root) = InOrder(t, t.root)
  /\ u.right[l] = x /\ u.parent[x] = l /\ u.left[l] = t.left[l]
  /\ u.left[x] = inner /\ u.right[x] = t.right[x]
  /\ inner # Nil =>
       u.parent[inner] = x /\ u.left[inner] = t.left[inner]
                           /\ u.right[inner] = t.right[inner]
  /\ Repointed(t, u, x, t.parent[x], l)
  /\ SameOutside(t, u, {x, l, inner, t.parent[x]})

\* C26: Rotations preserve order and repoint exactly the local edges.
\* rotate_left(x) with x.right non-null and rotate_right(x) with x.left
\* non-null leave the reachable nodes and their in-order sequence as they
\* were, make the former child the root of the subtree with x as its child,
\* move the child's inner subtree under x, repoint the edge of x's old
\* parent to the new subtree root (or set the tree's root, whose parent is
\* then null), and change no stored height and no other link.
C26_RotationFrame ==
  \A x \in Reachable(Heap) :
    /\ mRight[x] # Nil =>
         RotatedLeft(Heap, rotate_left(Heap, x), x, mRight[x], mLeft[mRight[x]])
    /\ mLeft[x] # Nil =>
         RotatedRight(Heap, rotate_right(Heap, x), x, mLeft[x], mRight[mLeft[x]])

\* C26 witness: an insertion has just rotated, and the tree holds a node
\* whose right child has a left subtree, a node below the root with a right
\* child, and a root with a left child
C26_Witness ==
  /\ lastWalk.fixes # <<>>
  /\ \E x \in Reachable(Heap) : mRight[x] # Nil /\ mLeft[mRight[x]] # Nil
  /\ \E x \in Reachable(Heap) : mParent[x] # Nil /\ mRight[x] # Nil
  /\ mLeft[root] # Nil

\* the link v, led to n when it led to e
Redirect(v, e, n) == IF v = e THEN n ELSE v

\* node m has the links and the stored height in u that it has in t
SameNode(t, u, m) ==
  /\ u.parent[m] = t.parent[m]
  /\ u.left[m] = t.left[m]
  /\ u.right[m] = t.right[m]
  /\ u.height[m] = t.height[m]

\* m is as in t but for its links to e, which lead to n in u
Substituted(t, u, m, e, n) ==
  /\ u.parent[m] = Redirect(t.parent[m], e, n)
  /\ u.left[m] = Redirect(t.left[m], e, n)
  /\ u.right[m] = Redirect(t.right[m], e, n)
  /\ u.height[m] = t.height[m]

\* C27: Replace is a pure substitution. When insert_or_replace finds a tie
\* with the linked node e, the new node n ends up with e's former parent,
\* left child, right child and stored height; e's former parent (or the
\* root of the tree) and e's former children point to n instead of e; no
\* other linked node's parent, left, right or height changes; no rotation
\* is performed; and no linked node refers to e afterwards.
C27_ReplaceSubstitutes ==
  [][(lastOp' = "insert_or_replace" /\ lastRet' # Nil) =>
       /\ lastRet' \in linked
       /\ linked' = (linked \ {lastRet'}) \cup {lastNode'}
       /\ SameNode(Heap, [Heap' EXCEPT !.parent[lastRet'] = mParent'[lastNode'],
                                       !.left[lastRet'] = mLeft'[lastNode'],
                                       !.right[lastRet'] = mRight'[lastNode'],
                                       !.height[lastRet'] = mHeight'[lastNode']],
                   lastRet')
       /\ root' = Redirect(root, lastRet', lastNode')
       /\ \A m \in linked \ {lastRet'} :
            Substituted(Heap, Heap', m, lastRet', lastNode')
       /\ lastWalk'.fixes = <<>>
       /\ \A m \in linked' :
            lastRet' \notin {mParent'[m], mLeft'[m], mRight'[m], root'}]_vars

\* C27 witness: insert_or_replace has displaced a node that had a parent
\* and two children
C27_Witness ==
  /\ lastOp = "insert_or_replace"
  /\ lastRet # Nil
  /\ mParent[lastNode] # Nil
  /\ mLeft[lastNode] # Nil
  /\ mRight[lastNode] # Nil

\* what the two-child branch of erase(x) leaves before the walk, in u:
\* s the successor, c its former right child, p its former parent
Spliced(t, u, x, s, c, p) ==
  /\ c # Nil => u.parent[c] = erase_start(x, s, p)
  /\ p # x => u.left[p] = c /\ u.right[p] = t.right[p]
  /\ u.parent[s] = t.parent[x]
  /\ u.left[s] = t.left[x]
  /\ u.right[s] = (IF p = x THEN c ELSE t.right[x])
  /\ u.height[s] = t.height[x]
  /\ u.parent[t.left[x]] = s
  /\ p # x => u.parent[t.right[x]] = s
  /\ IF t.parent[x] = Nil
       THEN u.root = s
       ELSE /\ u.root = t.root
            /\ IF t.left[t.parent[x]] = x
                 THEN u.left[t.parent[x]] = s
                 ELSE u.right[t.parent[x]] = s
  /\ InOrder(u, u.root) = Without(InOrder(t, t.root), x)

HasTwo(t, x) == t.left[x] # Nil /\ t.right[x] # Nil

\* C28: Two-child erase splices the successor. erase(x) of a node with two
\* children detaches the in-order successor s (the left-most node of x's
\* right subtree), s's right child taking s's old place; s then takes x's
\* position with x's parent, left child, right child and stored height
\* (s's former right child for x's right child when s was x's right
\* child); and the rebalance walk starts at s's old parent, or at s itself
\* when s was x's right child.
C28_SuccessorSplice ==
  \A x \in Reachable(Heap) :
    HasTwo(Heap, x) =>
      /\ Spliced(Heap,
                 erase_splice(Heap, x, leftmost(Heap, mRight[x]),
                              mRight[leftmost(Heap, mRight[x])],
                              mParent[leftmost(Heap, mRight[x])]),
                 x, leftmost(Heap, mRight[x]),
                 mRight[leftmost(Heap, mRight[x])],
                 mParent[leftmost(Heap, mRight[x])])
      /\ erase(Heap, x) =
           shrink(rebalance(
             erase_splice(Heap, x, leftmost(Heap, mRight[x]),
                          mRight[leftmost(Heap, mRight[x])],
                          mParent[leftmost(Heap, mRight[x])]),
             IF mRight[x] = leftmost(Heap, mRight[x])
               THEN mRight[x]
               ELSE mParent[leftmost(Heap, mRight[x])]))

\* C28 witness: a tree with a node whose successor is its right child, and
\* a node whose successor lies deeper and has a right child
C28_Witness ==
  /\ \E x \in Reachable(Heap) : HasTwo(Heap, x) /\ mLeft[mRight[x]] = Nil
  /\ \E x \in Reachable(Heap) :
       /\ HasTwo(Heap, x)
       /\ mLeft[mRight[x]] # Nil
       /\ mRight[leftmost(Heap, mRight[x])] # Nil

\* n's children, where it has them, name n as their parent
ChildrenPointBack(t, n) ==
  /\ t.left[n] # Nil => t.parent[t.left[n]] = n
  /\ t.right[n] # Nil => t.parent[t.right[n]] = n

\* C29: Link consistency. After every completed public operation (on nodes
\* that were not linked when they were inserted) the root's parent is null
\* and every non-null left or right child of a node reachable from the root
\* has its parent link pointing back to that node: the reachable links form
\* a proper tree, no node is reached by two paths, and no removed or
\* displaced node is reachable.
C29_LinkConsistency ==
  /\ root # Nil => mParent[root] = Nil
  /\ \A n \in Reachable(Heap) : ChildrenPointBack(Heap, n)
  /\ Len(InOrder(Heap, root)) = Cardinality(Reachable(Heap))
  /\ Reachable(Heap) = linked

\* C29 witness: an erase has taken a node out of a full tree and left a
\* root with two children, the erased node not being reachable
C29_Witness ==
  /\ lastOp = "erase"
  /\ Cardinality(linked) = MaxNodes - 1
  /\ HasTwo(Heap, root)
  /\ lastNode \notin Reachable(Heap)

\* the keys the set holds
StoredKeys(t) == {t.val[n] : n \in Reachable(t)}

TreeVars == <<root, mSize, mParent, mLeft, mRight, mHeight, value>>

\* C30: Set wrapper storage accounting. Across any sequence of set::insert
\* / emplace, set::erase(key), set::erase(iterator) and set::clear the
\* number of nodes allocated and not yet deallocated equals size(); an
\* insert of a key already present returns (end(), false), leaves size()
\* and the stored keys unchanged and frees the node it allocated;
\* erase(key) returns 1 and removes the key when it is present and returns
\* 0 with no change otherwise; and after clear no allocated node remains.
C30_SetAccounting ==
  [][/\ Cardinality(linked') = size(Heap')
     /\ (lastOp' \in {"insert", "emplace"}
           /\ lastRet'.key \in StoredKeys(Heap)) =>
          /\ lastRet'.ret = <<end(Heap'), FALSE>>
          /\ size(Heap') = size(Heap)
          /\ StoredKeys(Heap') = StoredKeys(Heap)
          /\ lastNode' \notin linked'
          /\ linked' = linked
     /\ lastOp' = "erase_key" =>
          IF lastRet'.key \in StoredKeys(Heap)
            THEN /\ lastRet'.ret = 1
                 /\ StoredKeys(Heap') = StoredKeys(Heap) \ {lastRet'.key}
                 /\ size(Heap') = size(Heap) - 1
            ELSE /\ lastRet'.ret = 0
                 /\ UNCHANGED <<TreeVars, linked>>
     /\ lastOp' = "set_clear" => linked' = {}]_vars

\* C30 witness: an insert of a key the set held was turned away with
\* (end(), false) while the set held all but one of the nodes
C30_Witness ==
  /\ lastOp \in {"insert", "emplace"}
  /\ lastRet.ret = <<end(Heap), FALSE>>
  /\ lastNode \notin linked
  /\ Cardinality(linked) = MaxNodes - 1
  /\ size(Heap) = MaxNodes - 1

====
